---- MODULE Spec2Model ----
(***************************************************************************)
(* Model of src/src/App.jsx: the App component of the waste classifier.    *)
(*                                                                         *)
(* The React state (image, result, loading, message) is the state of the   *)
(* machine.  Every event handler and every continuation that runs after an *)
(* await or in a callback is one atomic action: JavaScript runs each of    *)
(* them to completion and React commits the batched state updates before   *)
(* the next event is dispatched.  What is pending between the steps is     *)
(* state as well: the expiry timers started by setTimeout, the FileReader  *)
(* reads started by readAsDataURL and the requests started by fetch.       *)
(*                                                                         *)
(* An absent value (null) is the empty sequence and a present value v is   *)
(* the one-element sequence <<v>>.                                         *)
(***************************************************************************)
EXTENDS Naturals, Sequences, FiniteSets

VARIABLES
    image,      \* useState(null): the data URL of the selected file
    result,     \* useState(null): the predictions of the last classification
    loading,    \* useState(false)
    message,    \* useState(null): {type, text}
    timers,     \* pending setTimeout callbacks of showMessage, oldest first
    reads,      \* pending FileReader reads, in the order they were started
    requests,   \* pending handleClassify invocations, suspended at an await
    input,      \* e.target.value of the file input: the name of the file it shows
    msgTimer,   \* history: the place in timers of the timer that the showMessage
                \* call that set message started, 0 when message was not set by one
    resultFor,  \* history: the imageData of the request that produced result
    selected,   \* history: the file of the most recent file selection
    last        \* history: the handler or continuation that ran last

vars == <<image, result, loading, message, timers, reads, requests, input,
          msgTimer, resultFor, selected, last>>

----------------------------------------------------------------------------
(* Bounds of the model *)

MaxTimers == 2      \* expiry timers pending at once
MaxReads == 2       \* file reads pending at once
MaxRequests == 2    \* requests pending at once
MaxPreds == 2       \* entries of a prediction list

----------------------------------------------------------------------------
(* Values *)

Null == <<>>
Some(v) == <<v>>

\* 10 * 1024 * 1024, the limit of file.size
MaxFileSize == 10 * 1024 * 1024

NoFile == [name |-> "", size |-> 0, type |-> "", content |-> ""]

SmallFile == [name |-> "bottle.jpg", size |-> 2 * 1024 * 1024, type |-> "image/jpeg", content |-> "bottle"]
BoundaryFile == [name |-> "can.png", size |-> MaxFileSize, type |-> "image/png", content |-> "can"]
OverByOneFile == [name |-> "heap.png", size |-> MaxFileSize + 1, type |-> "image/png", content |-> "heap"]
ElevenMBFile == [name |-> "dump.jpg", size |-> 11 * 1024 * 1024, type |-> "image/jpeg", content |-> "dump"]

Files == {SmallFile, BoundaryFile, OverByOneFile, ElevenMBFile}

\* reader.readAsDataURL(file): "data:<type>;base64,<encoded content>"
DataURL(file) == [scheme |-> "data", mime |-> file.type, base64 |-> file.content]

\* JSON values, as far as the handlers look at them
JUndefined == [k |-> "undefined", s |-> "", a |-> <<>>]
JNull == [k |-> "null", s |-> "", a |-> <<>>]
JString(s) == [k |-> "string", s |-> s, a |-> <<>>]
JArray(a) == [k |-> "array", s |-> "", a |-> a]
JObject == [k |-> "object", s |-> "", a |-> <<>>]

\* JavaScript truthiness, used by || and !
Truthy(v) == ~(v.k \in {"undefined", "null"} \/ (v.k = "string" /\ v.s = ""))

\* confidence in units of 0.00001
Plastic == [class |-> "plastic", confidence |-> 91200]
Paper == [class |-> "paper", confidence |-> 87325]
Entries == {Plastic, Paper}

SeqsUpTo(S, n) == UNION {[1..m -> S] : m \in 0..n}
PredLists == SeqsUpTo(Entries, MaxPreds)

\* A response body.  kind: "invalid" is a body res.json() rejects, "null" the
\* JSON null, "primitive" a JSON number, string or boolean, "object" an object
\* with the fields error and results; results is "undefined", "null" or
\* "object", and predictions is the field of a results object.
Body(kind, error, res, predictions) ==
    [kind |-> kind, error |-> error, results |-> res, predictions |-> predictions]

Errors == {JUndefined, JString(""), JString("Model is unavailable")}
Predictions == {JUndefined, JNull, JObject, JString("none")} \cup {JArray(l) : l \in PredLists}

Bodies ==
    {Body(k, JUndefined, "undefined", JUndefined) : k \in {"invalid", "null", "primitive"}}
    \cup {Body("object", e, "undefined", JUndefined) : e \in Errors}
    \cup {Body("object", JUndefined, "null", JUndefined)}
    \cup {Body("object", JUndefined, "object", p) : p \in Predictions}
    \cup {Body("object", JString("Model is unavailable"), "object", JArray(<<Plastic>>))}

FileSizeText == "File size exceeds the 10MB limit."
UploadFirstText == "Please upload an image first."
UnknownErrorText == "An unknown classification error occurred."
SuccessText == "Image classified successfully!"
ConnectText == "Failed to connect to the backend server."

Event(op, file, ok) == [op |-> op, file |-> file, ok |-> ok]

RemoveAt(s, i) == [j \in 1..(Len(s) - 1) |-> IF j < i THEN s[j] ELSE s[j + 1]]

----------------------------------------------------------------------------
(* Initial state *)

Init ==
    /\ image = Null
    /\ result = Null
    /\ loading = FALSE
    /\ message = Null
    /\ timers = <<>>
    /\ reads = <<>>
    /\ requests = <<>>
    /\ input = ""
    /\ msgTimer = 0
    /\ resultFor = Null
    /\ selected = NoFile
    /\ last = Event("init", NoFile, TRUE)

----------------------------------------------------------------------------
(* Notifications *)

\* The callback of every pending timer: () => setMessage(null)
ClearMessage == "setMessage(null)"

\* showMessage(type, text): setMessage({type, text}); setTimeout(() => setMessage(null), 5000)
showMessage(type, text) ==
    /\ Len(timers) < MaxTimers
    /\ message' = Some([type |-> type, text |-> text])
    /\ timers' = Append(timers, ClearMessage)
    /\ msgTimer' = Len(timers) + 1

\* Mutant of TimerFire: the timer also works as a timeout of the request
TimerFire_StopsLoading ==
    /\ timers # <<>>
    /\ message' = Null
    /\ msgTimer' = 0
    /\ timers' = Tail(timers)
    /\ loading' = FALSE
    /\ last' = Event("timer", NoFile, TRUE)
    /\ UNCHANGED <<image, result, reads, requests, input, resultFor, selected>>

\* () => setMessage(null), run by the timer that was started first: all timers
\* have the same delay, so they fire in the order they were started.  It
\* clears message whatever call set it, so no place in timers is held after it.
TimerFire ==
    /\ timers # <<>>
    /\ message' = Null
    /\ msgTimer' = 0
    /\ timers' = Tail(timers)
    /\ last' = Event("timer", NoFile, TRUE)
    /\ UNCHANGED <<image, result, loading, reads, requests, input, resultFor, selected>>

\* Mutant of onClose: every call also cancels the oldest pending timer
onClose_CancelsOldest ==
    /\ message' = Null
    /\ msgTimer' = 0
    /\ timers' = IF timers = <<>> THEN <<>> ELSE Tail(timers)
    /\ last' = Event("dismiss", NoFile, TRUE)
    /\ UNCHANGED <<image, result, loading, reads, requests, input, resultFor, selected>>

\* onClose={() => setMessage(null)}
onClose ==
    /\ message' = Null
    /\ msgTimer' = 0
    /\ last' = Event("dismiss", NoFile, TRUE)
    /\ UNCHANGED <<image, result, loading, timers, reads, requests, input, resultFor, selected>>

\* MessageBox returns null, and so shows no close button, when there is no message
ClickClose ==
    /\ message # Null
    /\ onClose

----------------------------------------------------------------------------
(* File intake *)

\* Mutant of TooLarge: >= for >
TooLarge_AtLimit(file) == file.size >= MaxFileSize

\* file.size > 10 * 1024 * 1024
TooLarge(file) == file.size > MaxFileSize

\* Mutant of handleFileChange: setResult(null) placed before the size check
handleFileChange_ResetsFirst(file) ==
    /\ last' = Event("fileChange", file, TRUE)
    /\ IF file = NoFile
       THEN /\ input' = ""
            /\ UNCHANGED <<image, result, loading, message, timers, reads, requests,
                           msgTimer, resultFor, selected>>
       ELSE /\ selected' = file
            /\ result' = Null
            /\ resultFor' = Null
            /\ IF TooLarge(file)
               THEN /\ showMessage("error", FileSizeText)
                    /\ input' = ""
                    /\ image' = Null
                    /\ UNCHANGED <<loading, reads, requests>>
               ELSE /\ Len(reads) < MaxReads
                    /\ reads' = Append(reads, file)
                    /\ input' = file.name
                    /\ UNCHANGED <<image, loading, message, timers, requests, msgTimer>>

\* handleFileChange(e) with e.target.files?.[0] = file (NoFile: no file chosen)
handleFileChange(file) ==
    /\ last' = Event("fileChange", file, TRUE)
    /\ IF file = NoFile
       THEN /\ input' = ""
            /\ UNCHANGED <<image, result, loading, message, timers, reads, requests,
                           msgTimer, resultFor, selected>>
       ELSE /\ selected' = file
            /\ IF TooLarge(file)
               THEN /\ showMessage("error", FileSizeText)
                    /\ input' = ""
                    /\ image' = Null
                    /\ UNCHANGED <<result, loading, reads, requests, resultFor>>
               ELSE /\ Len(reads) < MaxReads
                    /\ reads' = Append(reads, file)
                    /\ input' = file.name
                    /\ result' = Null
                    /\ resultFor' = Null
                    /\ UNCHANGED <<image, loading, message, timers, requests, msgTimer>>

\* reader.onloadend = () => setImage(reader.result): the read of reads[i] ends;
\* reader.result is the data URL, or null when the read failed
ReaderLoadEnd(i, ok) ==
    /\ i \in 1..Len(reads)
    /\ image' = IF ok THEN Some(DataURL(reads[i])) ELSE Null
    /\ reads' = RemoveAt(reads, i)
    /\ last' = Event("loadend", reads[i], ok)
    /\ UNCHANGED <<result, loading, message, timers, requests, input,
                   msgTimer, resultFor, selected>>

----------------------------------------------------------------------------
(* Classification *)

\* Mutant of handleClassify: setLoading(true) placed before the guard
handleClassify_LoadingBeforeGuard ==
    /\ last' = Event("classify", NoFile, image # Null)
    /\ loading' = TRUE
    /\ IF image = Null
       THEN /\ showMessage("info", UploadFirstText)
            /\ UNCHANGED <<image, result, reads, requests, input, resultFor, selected>>
       ELSE /\ Len(requests) < MaxRequests
            /\ result' = Null
            /\ resultFor' = Null
            /\ message' = Null
            /\ msgTimer' = 0
            /\ requests' = Append(requests, [imageData |-> image[1], pc |-> "fetch", ok |-> TRUE])
            /\ UNCHANGED <<image, timers, reads, input, selected>>

\* Mutant of handleClassify: setMessage(null) left out
handleClassify_KeepsMessage ==
    /\ last' = Event("classify", NoFile, image # Null)
    /\ IF image = Null
       THEN /\ showMessage("info", UploadFirstText)
            /\ UNCHANGED <<image, result, loading, reads, requests, input,
                           resultFor, selected>>
       ELSE /\ Len(requests) < MaxRequests
            /\ loading' = TRUE
            /\ result' = Null
            /\ resultFor' = Null
            /\ requests' = Append(requests, [imageData |-> image[1], pc |-> "fetch", ok |-> TRUE])
            /\ UNCHANGED <<image, message, msgTimer, timers, reads, input, selected>>

\* Mutant of handleClassify: setResult(null) left out
handleClassify_KeepsResult ==
    /\ last' = Event("classify", NoFile, image # Null)
    /\ IF image = Null
       THEN /\ showMessage("info", UploadFirstText)
            /\ UNCHANGED <<image, result, loading, reads, requests, input,
                           resultFor, selected>>
       ELSE /\ Len(requests) < MaxRequests
            /\ loading' = TRUE
            /\ message' = Null
            /\ msgTimer' = 0
            /\ requests' = Append(requests, [imageData |-> image[1], pc |-> "fetch", ok |-> TRUE])
            /\ UNCHANGED <<image, result, resultFor, timers, reads, input, selected>>

\* handleClassify up to its first await: the guard, the three resets and the
\* call of fetch with body {imageData: image}
handleClassify ==
    /\ last' = Event("classify", NoFile, image # Null)
    /\ IF image = Null
       THEN /\ showMessage("info", UploadFirstText)
            /\ UNCHANGED <<image, result, loading, reads, requests, input,
                           resultFor, selected>>
       ELSE /\ Len(requests) < MaxRequests
            /\ loading' = TRUE
            /\ result' = Null
            /\ resultFor' = Null
            /\ message' = Null
            /\ msgTimer' = 0
            /\ requests' = Append(requests, [imageData |-> image[1], pc |-> "fetch", ok |-> TRUE])
            /\ UNCHANGED <<image, timers, reads, input, selected>>

\* Mutant of ButtonDisabled: disabled={!image}
ButtonDisabled_IgnoresLoading == image = Null

\* disabled={loading || !image}
ButtonDisabled == loading \/ image = Null

ClickClassify ==
    /\ ~ButtonDisabled
    /\ handleClassify

\* Mutant of Catch: the catch shows the message as "info"
Catch_ShowsInfo(i) ==
    /\ showMessage("info", ConnectText)
    /\ loading' = FALSE
    /\ requests' = RemoveAt(requests, i)
    /\ UNCHANGED <<image, result, reads, input, resultFor, selected>>

\* catch (err) { showMessage("error", "Failed to connect ...") } finally { setLoading(false) }
Catch(i) ==
    /\ showMessage("error", ConnectText)
    /\ loading' = FALSE
    /\ requests' = RemoveAt(requests, i)
    /\ UNCHANGED <<image, result, reads, input, resultFor, selected>>

\* await fetch(...) resolves with a response; res.ok is ok
FetchResolve(i, ok) ==
    /\ i \in 1..Len(requests)
    /\ requests[i].pc = "fetch"
    /\ requests' = [requests EXCEPT ![i] = [@ EXCEPT !.pc = "json", !.ok = ok]]
    /\ last' = Event("fetchResolve", NoFile, ok)
    /\ UNCHANGED <<image, result, loading, message, timers, reads, input,
                   msgTimer, resultFor, selected>>

\* await fetch(...) rejects: no response was obtained
FetchReject(i) ==
    /\ i \in 1..Len(requests)
    /\ requests[i].pc = "fetch"
    /\ last' = Event("fetchReject", NoFile, FALSE)
    /\ Catch(i)

\* data.error of a body that is not null
ErrorOf(data) == IF data.kind = "object" THEN data.error ELSE JUndefined

\* Mutant of PredictionsOf: data.predictions, which no body has
PredictionsOf_TopLevel(data) == JUndefined

\* data.results?.predictions of a body that is not null
PredictionsOf(data) ==
    IF data.kind = "object" /\ data.results = "object" THEN data.predictions ELSE JUndefined

\* data.error || "An unknown classification error occurred."
ErrorMessage(data) == IF Truthy(ErrorOf(data)) THEN ErrorOf(data).s ELSE UnknownErrorText

\* data.results?.predictions || []
ResultOf(data) == IF Truthy(PredictionsOf(data)) THEN PredictionsOf(data) ELSE JArray(<<>>)

\* Mutant of JsonSettle: setLoading(false) at the end of the try block instead
\* of in a finally, so that the return of the error branch skips it
JsonSettle_ReturnSkipsCleanup(i, data) ==
    /\ i \in 1..Len(requests)
    /\ requests[i].pc = "json"
    /\ last' = Event("json", NoFile, requests[i].ok)
    /\ IF data.kind \in {"invalid", "null"}
       THEN Catch(i)
       ELSE IF ~requests[i].ok
       THEN /\ showMessage("error", ErrorMessage(data))
            /\ requests' = RemoveAt(requests, i)
            /\ UNCHANGED <<image, result, loading, reads, input, resultFor, selected>>
       ELSE /\ result' = Some(ResultOf(data))
            /\ resultFor' = Some(requests[i].imageData)
            /\ showMessage("success", SuccessText)
            /\ loading' = FALSE
            /\ requests' = RemoveAt(requests, i)
            /\ UNCHANGED <<image, reads, input, selected>>

\* await res.json() settles with body data, and the handler runs to its end;
\* reading a property of null throws a TypeError, which the catch handles
JsonSettle(i, data) ==
    /\ i \in 1..Len(requests)
    /\ requests[i].pc = "json"
    /\ last' = Event("json", NoFile, requests[i].ok)
    /\ IF data.kind \in {"invalid", "null"}
       THEN Catch(i)
       ELSE IF ~requests[i].ok
       THEN /\ showMessage("error", ErrorMessage(data))
            /\ loading' = FALSE
            /\ requests' = RemoveAt(requests, i)
            /\ UNCHANGED <<image, result, reads, input, resultFor, selected>>
       ELSE /\ result' = Some(ResultOf(data))
            /\ resultFor' = Some(requests[i].imageData)
            /\ showMessage("success", SuccessText)
            /\ loading' = FALSE
            /\ requests' = RemoveAt(requests, i)
            /\ UNCHANGED <<image, reads, input, selected>>

----------------------------------------------------------------------------
(* Result view *)

NoDataText == "No data returned."

\* item.confidence * 100, in the units of confidence
Times100(c) == c * 100

\* A number with two decimals and the % sign after it: whole.d1d2%
Percentage(whole, d1, d2) == [whole |-> whole, d1 |-> d1, d2 |-> d2, sign |-> "%"]

\* Mutant of ToFixed2: the digits after the second decimal are cut off
ToFixed2_Truncates(x) ==
    LET n == x \div 1000
    IN  Percentage(n \div 100, (n \div 10) % 10, n % 10)

\* x.toFixed(2) followed by %: x, a number of units of 0.00001, rounded to
\* the nearest hundredth.  A double that lies halfway between two hundredths
\* in decimal is rounded by its binary value; the confidences of Entries are
\* rounded by the doubles as they are here.
ToFixed2(x) ==
    LET n == (x + 500) \div 1000
    IN  Percentage(n \div 100, (n \div 10) % 10, n % 10)

\* formatResults(res): the placeholder, or one line for each item of res
formatResults(res) ==
    IF res = Null \/ res[1].k # "array"
    THEN [text |-> NoDataText, lines |-> <<>>]
    ELSE [text |-> "",
          lines |-> [j \in 1..Len(res[1].a) |->
                        [label |-> res[1].a[j].class,
                         confidence |-> ToFixed2(Times100(res[1].a[j].confidence))]]]

\* {result && (... {formatResults(result)} ...)}: the panel that is rendered
ResultPanel == IF result = Null THEN Null ELSE Some(formatResults(result))

----------------------------------------------------------------------------
(* Specifications *)

\* The page: the handlers run when the user or the environment triggers them
Next ==
    \/ \E file \in Files \cup {NoFile} : handleFileChange(file)
    \/ \E i \in 1..MaxReads, ok \in BOOLEAN : ReaderLoadEnd(i, ok)
    \/ ClickClassify
    \/ \E i \in 1..MaxRequests, ok \in BOOLEAN : FetchResolve(i, ok)
    \/ \E i \in 1..MaxRequests : FetchReject(i)
    \/ \E i \in 1..MaxRequests, data \in Bodies : JsonSettle(i, data)
    \/ TimerFire
    \/ ClickClose

Spec == Init /\ [][Next]_vars

\* The page with its timers: a timer that is pending fires after its 5000 ms,
\* whatever else happens in between
SpecExpiry == Init /\ [][Next]_vars /\ WF_vars(TimerFire)

\* The page when no read of a file fails: every behaviour of it is one of Spec
NextReadsSucceed ==
    \/ \E file \in Files \cup {NoFile} : handleFileChange(file)
    \/ \E i \in 1..MaxReads : ReaderLoadEnd(i, TRUE)
    \/ ClickClassify
    \/ \E i \in 1..MaxRequests, ok \in BOOLEAN : FetchResolve(i, ok)
    \/ \E i \in 1..MaxRequests : FetchReject(i)
    \/ \E i \in 1..MaxRequests, data \in Bodies : JsonSettle(i, data)
    \/ TimerFire
    \/ ClickClose

SpecReadsSucceed == Init /\ [][NextReadsSucceed]_vars

\* The handlers of the component called directly, whatever the page shows,
\* with one file of each kind and one body for each path of the handler
HandlerFiles == {SmallFile, OverByOneFile, NoFile}
HandlerBodies ==
    { Body("invalid", JUndefined, "undefined", JUndefined),
      Body("object", JString("Model is unavailable"), "undefined", JUndefined),
      Body("object", JUndefined, "object", JArray(<<Plastic>>)) }

NextHandler ==
    \/ \E file \in HandlerFiles : handleFileChange(file)
    \/ \E i \in 1..MaxReads, ok \in BOOLEAN : ReaderLoadEnd(i, ok)
    \/ handleClassify
    \/ \E i \in 1..MaxRequests, ok \in BOOLEAN : FetchResolve(i, ok)
    \/ \E i \in 1..MaxRequests : FetchReject(i)
    \/ \E i \in 1..MaxRequests, data \in HandlerBodies : JsonSettle(i, data)
    \/ TimerFire
    \/ onClose

SpecHandler == Init /\ [][NextHandler]_vars

----------------------------------------------------------------------------
(* Shorthands of the properties *)

Notification(type, text) == Some([type |-> type, text |-> text])

IsValidFile(file) == file # NoFile /\ file.size <= MaxFileSize

\* The request a handleClassify invocation issues for the payload it holds
RequestFor(payload) == [imageData |-> payload, pc |-> "fetch", ok |-> TRUE]

\* The body is an object whose results.predictions is an array
HasPredictionList(data) ==
    data.kind = "object" /\ data.results = "object" /\ data.predictions.k = "array"

\* The body is an object whose error field is a string that is not empty
HasError(data) == data.kind = "object" /\ data.error.k = "string" /\ data.error.s # ""

----------------------------------------------------------------------------
(* C1 *)

\* C1: at most one classification request is in flight in every reachable
\* state of the page; a request is in flight exactly while loading is true,
\* and while loading is true a click on the classify button is not enabled.
C1_OneRequestInFlight ==
    /\ Len(requests) <= 1
    /\ loading <=> requests # <<>>
    /\ loading => ~ENABLED ClickClassify

\* A file read ends, with a payload held, while the request is in flight
C1_Witness ==
    /\ Len(requests) = 1
    /\ loading
    /\ image # Null
    /\ last.op = "loadend"

----------------------------------------------------------------------------
(* C2 *)

\* C2, as claimed: the result held is the result of the latest operation; in
\* particular, once every file selection has completed and a payload is held,
\* a held result was obtained for that payload and not for an earlier one.
C2_Original ==
    (result # Null /\ image # Null /\ reads = <<>>) => resultFor = image

----------------------------------------------------------------------------
(* C3 *)

\* C3, as claimed: at most one expiry timer is pending at any time, and a
\* notification is never removed by the expiry timer of an earlier one: the
\* timer that fires while a notification is shown, the first of timers, is
\* that notification's own.
C3_Original ==
    [][/\ Len(timers') <= 1
       /\ (last'.op = "timer" /\ message # Null) => msgTimer = 1]_vars

----------------------------------------------------------------------------
(* C4 *)

\* C4, as claimed: in the state right after dismiss() the notification is
\* absent and no expiry timer is pending.
C4_Original ==
    last.op = "dismiss" => (message = Null /\ timers = <<>>)

----------------------------------------------------------------------------
(* C5 *)

\* C5, as claimed: no read of a file over the limit is ever pending; right
\* after such a file is selected the error notification is shown; and from
\* then until the next selection the payload is absent.
C5_Original ==
    /\ \A i \in 1..Len(reads) : reads[i].size <= MaxFileSize
    /\ (last.op = "fileChange" /\ last.file.size > MaxFileSize)
          => message = Notification("error", FileSizeText)
    /\ selected.size > MaxFileSize => image = Null

----------------------------------------------------------------------------
(* C6 *)

\* C6, as claimed: when the read of a selected file ends, the payload held is
\* the encoding of that file.
C6_Original ==
    last.op = "loadend" => image = Some(DataURL(last.file))

\* C6, amended: selecting a file of at most 10 MiB clears the result at once,
\* starts one read of that file and raises no notification; when the read ends
\* with success the payload held is the encoding of that file, and when it
\* ends with a failure the payload is absent.  Only files within the limit
\* are ever read.
C6_Amended ==
    [][/\ (last'.op = "fileChange" /\ IsValidFile(last'.file))
            => /\ result' = Null
               /\ reads' = Append(reads, last'.file)
               /\ message' = message
               /\ timers' = timers
       /\ last'.op = "loadend"
            => /\ IsValidFile(last'.file)
               /\ image' = IF last'.ok THEN Some(DataURL(last'.file)) ELSE Null]_vars

\* The read of the file of exactly 10 MiB has ended with success
C6_Witness ==
    /\ last.op = "loadend"
    /\ last.ok
    /\ last.file = BoundaryFile
    /\ image = Some(DataURL(BoundaryFile))
    /\ result = Null

----------------------------------------------------------------------------
(* C7 *)

\* C7: handleClassify called while no payload is held issues no request,
\* shows the info notification "Please upload an image first." and starts its
\* one expiry timer, and leaves loading, result and image as they were.
C7_ClassifyWithoutImage ==
    [][(last'.op = "classify" /\ image = Null)
          => /\ requests' = requests
             /\ message' = Notification("info", UploadFirstText)
             /\ Len(timers') = Len(timers) + 1
             /\ UNCHANGED <<loading, result, image>>]_vars

\* handleClassify has just run without a payload
C7_Witness ==
    /\ last.op = "classify"
    /\ ~last.ok
    /\ image = Null
    /\ message = Notification("info", UploadFirstText)
    /\ requests = <<>>
    /\ ~loading

----------------------------------------------------------------------------
(* C8 *)

\* C8: handleClassify called with a payload held clears the result and the
\* notification, sets loading, and issues exactly one request, which carries
\* the payload held at the call and waits for its response.
C8_ClassifyStart ==
    [][(last'.op = "classify" /\ image # Null)
          => /\ result' = Null
             /\ message' = Null
             /\ loading' = TRUE
             /\ requests' = Append(requests, RequestFor(image[1]))
             /\ image' = image]_vars

\* A request has just been issued while the timer of a cleared notification
\* is still pending
C8_Witness ==
    /\ last.op = "classify"
    /\ last.ok
    /\ loading
    /\ result = Null
    /\ message = Null
    /\ timers # <<>>
    /\ requests = <<RequestFor(image[1])>>

----------------------------------------------------------------------------
(* C9 *)

\* C9: when a response with a success status carries a prediction list, the
\* result becomes that list, entry for entry and in the same order, the
\* success notification is shown and loading becomes false.
C9_Success ==
    [][\A i \in 1..Len(requests), data \in Bodies :
          (last'.op = "json" /\ requests[i].ok /\ HasPredictionList(data) /\ JsonSettle(i, data))
             => /\ result' = Some(JArray(data.predictions.a))
                /\ message' = Notification("success", SuccessText)
                /\ loading' = FALSE]_vars

\* A list of two entries has been received and is held in its order
C9_Witness ==
    /\ last.op = "json"
    /\ last.ok
    /\ result = Some(JArray(<<Paper, Plastic>>))
    /\ message = Notification("success", SuccessText)
    /\ ~loading

----------------------------------------------------------------------------
(* C10 *)

\* C10, as claimed: for every response with a status that is not a success,
\* whatever its body, an error notification is shown whose text is the error
\* field of the body when there is one and the fallback text otherwise, the
\* result is absent and loading is false.
C10_Original ==
    [][\A i \in 1..Len(requests), data \in Bodies :
          (last'.op = "json" /\ ~requests[i].ok /\ JsonSettle(i, data))
             => /\ message' = Notification("error",
                                  IF HasError(data) THEN data.error.s ELSE UnknownErrorText)
                /\ result' = Null
                /\ loading' = FALSE]_vars

----------------------------------------------------------------------------
(* C11 *)

\* C11: after a transport failure of the request (fetch rejects, no response
\* is obtained) the notification is the error "Failed to connect to the
\* backend server.", loading is false, the result is absent and no request
\* is left in flight.
C11_TransportFailure ==
    last.op = "fetchReject"
       => /\ message = Notification("error", ConnectText)
          /\ ~loading
          /\ result = Null
          /\ requests = <<>>

\* The request has just failed in transport while the timer of an earlier
\* notification was still pending
C11_Witness ==
    /\ last.op = "fetchReject"
    /\ message = Notification("error", ConnectText)
    /\ Len(timers) = 2
    /\ ~loading
    /\ image # Null

----------------------------------------------------------------------------
(* C12 *)

\* C12: loading is cleared in the very step in which the request reaches its
\* end, on the success, the service error and the transport error branch
\* alike, once for each request, and it is never cleared while a request is
\* still outstanding.
C12_ClearedOnce ==
    [][/\ Len(requests') < Len(requests)
            => /\ last'.op \in {"json", "fetchReject"}
               /\ Len(requests') = Len(requests) - 1
               /\ loading /\ ~loading'
       /\ (loading /\ ~loading') => Len(requests') < Len(requests)
       /\ requests' # <<>> => loading']_vars

\* A service error has just ended the request and cleared loading
C12_Witness ==
    /\ last.op = "json"
    /\ ~last.ok
    /\ message = Notification("error", "Model is unavailable")
    /\ requests = <<>>
    /\ ~loading

----------------------------------------------------------------------------
(* C13 *)

\* C13, as claimed: for every response with a success status whose body
\* parses but holds no prediction list (the body is null or no object,
\* results or predictions is missing, predictions is not an array), the
\* result becomes the empty list and the success notification is shown.
C13_Original ==
    [][\A i \in 1..Len(requests), data \in Bodies :
          (/\ last'.op = "json"
           /\ requests[i].ok
           /\ data.kind # "invalid"
           /\ ~HasPredictionList(data)
           /\ JsonSettle(i, data))
             => /\ result' = Some(JArray(<<>>))
                /\ message' = Notification("success", SuccessText)]_vars

----------------------------------------------------------------------------
(* C14 *)

\* The percentage p is the confidence c (in units of 0.00001) times 100 with
\* exactly two decimals: no number with two decimals is nearer to it
IsTwoDecimalPercentOf(p, c) ==
    LET n == 100 * p.whole + 10 * p.d1 + p.d2
    IN  /\ p.d1 \in 0..9 /\ p.d2 \in 0..9 /\ p.sign = "%"
        /\ 1000 * n <= 100 * c + 500
        /\ 100 * c < 1000 * n + 500

\* C14: the view of the held result is no panel when the result is absent,
\* the placeholder "No data returned." when it is present and no array, and
\* otherwise one line for each entry, in the order of the entries, with the
\* class of the entry as its label and its confidence as a percentage with
\* two decimals.
C14_Render ==
    /\ result = Null => ResultPanel = Null
    /\ (result # Null /\ result[1].k # "array")
          => ResultPanel = Some([text |-> NoDataText, lines |-> <<>>])
    /\ (result # Null /\ result[1].k = "array")
          => /\ ResultPanel # Null
             /\ ResultPanel[1].text = ""
             /\ Len(ResultPanel[1].lines) = Len(result[1].a)
             /\ \A j \in 1..Len(result[1].a) :
                   /\ ResultPanel[1].lines[j].label = result[1].a[j].class
                   /\ IsTwoDecimalPercentOf(ResultPanel[1].lines[j].confidence,
                                            result[1].a[j].confidence)

\* Two entries are held and shown as "paper 87.33%" and "plastic 91.20%"
C14_Witness ==
    /\ result = Some(JArray(<<Paper, Plastic>>))
    /\ ResultPanel = Some([text |-> "",
                           lines |-> << [label |-> "paper", confidence |-> Percentage(87, 3, 3)],
                                        [label |-> "plastic", confidence |-> Percentage(91, 2, 0)] >>])

----------------------------------------------------------------------------
(* C15 *)

\* C15: dismiss is idempotent.  In the state a call of onClose leaves, the
\* notification is absent and a second call of onClose changes nothing: it is
\* enabled (no error) and no step of it leads to another state.
C15_DismissIdempotent ==
    last.op = "dismiss"
       => /\ message = Null
          /\ ENABLED onClose
          /\ ~ENABLED <<onClose>>_vars

\* onClose has run while timers were pending and a request was in flight
C15_Witness ==
    /\ last.op = "dismiss"
    /\ message = Null
    /\ Len(timers) = 2
    /\ loading

----------------------------------------------------------------------------
(* C16 *)

\* C16: the selection of a file over the limit leaves the result, loading,
\* the requests in flight and the pending reads as they were, also while a
\* request is in flight; it changes the payload, the notification with its
\* timer and the file input only.
C16_RejectedSelectionFrame ==
    [][(last'.op = "fileChange" /\ TooLarge(last'.file))
          => /\ UNCHANGED <<result, loading, requests, reads>>
             /\ image' = Null
             /\ input' = ""
             /\ message' = Notification("error", FileSizeText)]_vars

\* A file over the limit has been rejected while a result is held
C16_WitnessResult ==
    /\ last.op = "fileChange"
    /\ TooLarge(last.file)
    /\ result = Some(JArray(<<Plastic>>))
    /\ image = Null

\* A file over the limit has been rejected while a request is in flight
C16_Witness ==
    /\ last.op = "fileChange"
    /\ last.file = ElevenMBFile
    /\ loading
    /\ Len(requests) = 1
    /\ image = Null
    /\ message = Notification("error", FileSizeText)

----------------------------------------------------------------------------
(* C17 *)

\* The half of C17 that holds: with timers that fire, a notification that is
\* shown is absent at some later time.
C17_Expires == (message # Null) ~> (message = Null)

\* C17, as claimed: every notification becomes absent at some later time,
\* and what removes a notification is the user's dismiss, the start of a
\* classification attempt or its own expiry timer, which is the first of
\* timers when it fires: it is not removed before its own interval is over.
C17_Original ==
    /\ (message # Null) ~> (message = Null)
    /\ [][(message # Null /\ message' = Null)
            => \/ last'.op \in {"dismiss", "classify"}
               \/ (last'.op = "timer" /\ msgTimer = 1)]_vars

----------------------------------------------------------------------------
(* C18 *)

\* C18: nothing but the end of the request takes the page out of loading.
\* While loading is true, a step leaves it true unless the step is the body
\* of a response being settled or the fetch being rejected; no step issues a
\* further request; and a file selection, the end of a read, a dismiss and
\* a timer leave loading and the request in flight as they are.  So a request
\* that is never answered leaves loading true for ever.
C18_NoTimeout ==
    [][loading
          => /\ loading' \/ last'.op \in {"json", "fetchReject"}
             /\ Len(requests') <= Len(requests)
             /\ last'.op \in {"fileChange", "loadend", "dismiss", "timer"}
                   => (loading' /\ requests' = requests)]_vars

\* The last pending timer has fired and the request is still in flight
C18_Witness ==
    /\ loading
    /\ last.op = "timer"
    /\ timers = <<>>
    /\ Len(requests) = 1
    /\ requests[1].pc = "fetch"

----------------------------------------------------------------------------
(* C19 *)

\* C19: while loading is true the result is absent, and a result that is not
\* absent is written only by the step that settles the body of a response
\* with a success status, which is the step that sets loading to false.
C19_NoResultWhileLoading ==
    [][/\ loading' => result' = Null
       /\ (result' # Null /\ result' # result)
             => /\ last'.op = "json"
                /\ last'.ok
                /\ loading /\ ~loading']_vars

\* A response with a success status has arrived, its body has not: the
\* request is in flight and the result is absent
C19_Witness ==
    /\ loading
    /\ result = Null
    /\ last.op = "fetchResolve"
    /\ last.ok
    /\ Len(requests) = 1
    /\ requests[1].pc = "json"

----------------------------------------------------------------------------
(* C20 *)

\* C20, as claimed: when files within the limit are selected one after the
\* other and every read succeeds, then once no read is pending the payload
\* held is the encoding of the file that was selected last.
C20_Original ==
    (reads = <<>> /\ IsValidFile(selected) /\ last.op = "loadend")
       => image = Some(DataURL(selected))

====
